---- MODULE Spec2Model ----
(***************************************************************************)
(* A model of check_notebooks.py: the command-line driver main(), the      *)
(* executor run_notebook() and the inspector check_saved_outputs().        *)
(*                                                                         *)
(* Text the program computes on (arguments, paths, stderr, error values)   *)
(* is a sequence of one-character strings, so that startswith, substring   *)
(* search, split, strip, slicing and ordering are computed as Python       *)
(* computes them.  A Path is the sequence of its components.  A print      *)
(* call is recorded as its format, its formatted values and its `end`.     *)
(***************************************************************************)
EXTENDS Integers, Sequences, FiniteSets, TLC

VARIABLES
    argv,        \* sys.argv, argv[1] being the script path
    tool,        \* what subprocess.run finds: "no_interpreter", "no_jupyter", "ok"
    files,       \* the file system: path string -> file
    files0,      \* the file system when main() was entered
    pc,          \* position of main()
    check_only,  \* main.check_only
    args,        \* main.args
    notebooks,   \* main.notebooks (list of Paths)
    todo,        \* the part of sorted(notebooks) the loop has not reached
    all_passed,  \* main.all_passed
    out,         \* the print calls made so far
    rc,          \* what main() returned (-1: nothing yet)
    calls,       \* the calls of run_notebook / check_saved_outputs, in order
    fin,         \* input of the function under test (function specifications)
    fres,        \* its result
    fpc          \* "idle", "ready" or "applied"

mainVars == <<argv, tool, files, files0, pc, check_only, args, notebooks,
              todo, all_passed, out, rc, calls>>
funVars == <<fin, fres, fpc>>
vars == <<argv, tool, files, files0, pc, check_only, args, notebooks,
          todo, all_passed, out, rc, calls, fin, fres, fpc>>

----------------------------------------------------------------------------
(* Bounds *)

MaxArgs == 2
MaxCells == 2
MaxOutputs == 2
MaxLines == 3

----------------------------------------------------------------------------
(* Text *)

\* The characters in use, in code-point order.
Alphabet ==
    <<"\n", " ", "-", ".", "/", ":", "A", "C", "E", "I", "K", "N", "T", "U", "V", "X", "Z",
      "_", "a", "b", "c", "d", "e", "f", "h", "i", "j", "k", "l", "m", "n", "o", "p", "r", "s", "t", "u", "v", "w", "x", "y">>

Ord(c) == CHOOSE i \in DOMAIN Alphabet : Alphabet[i] = c

Min(a, b) == IF a < b THEN a ELSE b

\* c repeated n times
Rep(c, n) == [i \in 1..n |-> c]

\* Python s[a:b] for 0 <= a
Slice(s, a, b) == SubSeq(s, a + 1, Min(b, Len(s)))

\* Python sub in s
Contains(s, sub) ==
    \E i \in 0..(Len(s) - Len(sub)) : SubSeq(s, i + 1, i + Len(sub)) = sub

\* Python s.startswith(p)
StartsWith(s, p) == Len(p) <= Len(s) /\ SubSeq(s, 1, Len(p)) = p

\* Python s.endswith(p)
EndsWith(s, p) ==
    Len(p) <= Len(s) /\ SubSeq(s, Len(s) - Len(p) + 1, Len(s)) = p

Whitespace == {" ", "\n"}

\* Python s.strip()
Strip(s) ==
    LET keep == {i \in 1..Len(s) : s[i] \notin Whitespace}
    IN  IF keep = {} THEN <<>>
        ELSE LET lo == CHOOSE i \in keep : \A j \in keep : i <= j
                 hi == CHOOSE i \in keep : \A j \in keep : j <= i
             IN  SubSeq(s, lo, hi)

\* Python s.split(sep) for a one-character sep
RECURSIVE Split(_, _)
Split(s, sep) ==
    LET at == {i \in 1..Len(s) : s[i] = sep}
    IN  IF at = {} THEN <<s>>
        ELSE LET k == CHOOSE i \in at : \A j \in at : i <= j
             IN  <<SubSeq(s, 1, k - 1)>> \o Split(SubSeq(s, k + 1, Len(s)), sep)

\* Python sep.join(parts)
RECURSIVE Join(_, _)
Join(parts, sep) ==
    IF parts = <<>> THEN <<>>
    ELSE IF Len(parts) = 1 THEN parts[1]
    ELSE parts[1] \o sep \o Join(Tail(parts), sep)

CharLess(c, d) == Ord(c) < Ord(d)

\* str < str: the first differing character decides, a proper prefix is
\* smaller
StrLess(s, t) ==
    \E k \in 1..(Min(Len(s), Len(t)) + 1) :
        /\ \A j \in 1..(k - 1) : s[j] = t[j]
        /\ \/ k > Len(s) /\ k <= Len(t)
           \/ k <= Len(s) /\ k <= Len(t) /\ CharLess(s[k], t[k])

Digits == <<"0", "1", "2", "3", "4", "5", "6", "7", "8", "9">>

\* str(n) for n >= 0
RECURSIVE IntToStr(_)
IntToStr(n) ==
    IF n < 10 THEN <<Digits[n + 1]>>
    ELSE IntToStr(n \div 10) \o <<Digits[(n % 10) + 1]>>

----------------------------------------------------------------------------
(* pathlib.Path (POSIX flavour): a Path is the sequence of its parts. *)

RECURSIVE DropEmptyAndDot(_)
DropEmptyAndDot(ps) ==
    IF ps = <<>> THEN <<>>
    ELSE IF ps[1] = <<>> \/ ps[1] = <<".">> THEN DropEmptyAndDot(Tail(ps))
    ELSE <<ps[1]>> \o DropEmptyAndDot(Tail(ps))

\* Path(s)
Path(s) ==
    (IF StartsWith(s, <<"/">>) THEN <<<<"/">>>> ELSE <<>>)
        \o DropEmptyAndDot(Split(s, "/"))

\* str(path)
PathStr(p) ==
    IF p = <<>> THEN <<".">>
    ELSE IF p[1] = <<"/">> THEN <<"/">> \o Join(Tail(p), <<"/">>)
    ELSE Join(p, <<"/">>)

\* path.name
PathName(p) ==
    IF p = <<>> \/ p = <<<<"/">>>> THEN <<>> ELSE p[Len(p)]

\* path.parent
PathParent(p) ==
    IF p = <<>> \/ p = <<<<"/">>>> THEN p ELSE SubSeq(p, 1, Len(p) - 1)

\* Path.__lt__: the lists of parts are compared, the first differing part
\* decides (parts compare as str), a proper prefix is smaller
PathLess(p, q) ==
    \E k \in 1..(Min(Len(p), Len(q)) + 1) :
        /\ \A j \in 1..(k - 1) : p[j] = q[j]
        /\ \/ k > Len(p) /\ k <= Len(q)
           \/ k <= Len(p) /\ k <= Len(q) /\ StrLess(p[k], q[k])

----------------------------------------------------------------------------
(* run_notebook *)

JupyterNotFound ==
    <<"j","u","p","y","t","e","r"," ","n","o","t"," ","f","o","u","n","d",".",
      " ","I","n","s","t","a","l","l"," ","w","i","t","h",":"," ",
      "p","i","p"," ","i","n","s","t","a","l","l"," ",
      "j","u","p","y","t","e","r"," ","n","b","c","o","n","v","e","r","t">>

sCellExecutionError ==
    <<"C","e","l","l","E","x","e","c","u","t","i","o","n","E","r","r","o","r">>
sError == <<"E","r","r","o","r">>
sException == <<"E","x","c","e","p","t","i","o","n">>

MsgLimit == 200

\* error_msg[:200] if len(error_msg) > 200 else error_msg
TruncateNoCut(msg) == msg
Truncate(msg) == IF Len(msg) > MsgLimit THEN Slice(msg, 0, MsgLimit) ELSE msg

\* the loop over enumerate(lines): the excerpt from the first line that
\* contains 'Error' or 'Exception', the message unchanged when there is none
ExtractError(error_msg) ==
    LET lines == Split(error_msg, "\n")
        hits == {i \in 1..Len(lines) :
                    Contains(lines[i], sError) \/ Contains(lines[i], sException)}
    IN  IF hits = {} THEN error_msg
        ELSE LET i == CHOOSE h \in hits : \A g \in hits : h <= g
             IN  Join(SubSeq(lines, i, Min(i + 2, Len(lines))), <<"\n">>)

\* the message derived from stderr before truncation
Diagnostic(stderr) ==
    LET error_msg == Strip(stderr)
    IN  IF Contains(error_msg, sCellExecutionError)
        THEN ExtractError(error_msg) ELSE error_msg

\* which exceptions of subprocess.run the function catches
CatchesNothing(exc) == FALSE
Catches(exc) == exc = "FileNotFoundError"

\* run_notebook, given what subprocess.run did:
\* proc = [exc, returncode, stderr], exc = "none" when it returned
run_notebook(proc) ==
    IF proc.exc # "none"
    THEN IF Catches(proc.exc)
         THEN [raised |-> FALSE, success |-> FALSE, message |-> JupyterNotFound]
         ELSE [raised |-> TRUE, success |-> FALSE, message |-> <<>>]
    ELSE IF proc.returncode # 0
    THEN [raised |-> FALSE, success |-> FALSE,
          message |-> Truncate(Diagnostic(proc.stderr))]
    ELSE [raised |-> FALSE, success |-> TRUE, message |-> <<>>]

----------------------------------------------------------------------------
(* check_saved_outputs *)

\* dict.get(k, default)
Get(d, k, default) == IF k \in DOMAIN d THEN d[k] ELSE default

sUnknown == <<"U","n","k","n","o","w","n">>

ValueLimit == 100

\* the descriptors of one cell, i being its index
RECURSIVE OutputErrors(_, _)
OutputErrors(i, outputs) ==
    IF outputs = <<>> THEN <<>>
    ELSE LET output == outputs[1]
             here == IF Get(output, "output_type", "") = "error"
                     THEN <<[cell |-> i,
                             ename |-> Get(output, "ename", sUnknown),
                             evalue |-> Slice(Get(output, "evalue", <<>>),
                                              0, ValueLimit)]>>
                     ELSE <<>>
         IN  here \o OutputErrors(i, Tail(outputs))

\* enumerate(cells, start=1): the index of the k-th cell
CellIndexAmongCode(cells, k) ==
    Cardinality({j \in 1..k : Get(cells[j], "cell_type", "") = "code"})
CellIndex(cells, k) == k

RECURSIVE CellErrors(_, _)
CellErrors(cells, k) ==
    IF k > Len(cells) THEN <<>>
    ELSE (IF Get(cells[k], "cell_type", "") # "code" THEN <<>>
          ELSE OutputErrors(CellIndex(cells, k), Get(cells[k], "outputs", <<>>)))
         \o CellErrors(cells, k + 1)

\* check_saved_outputs on a parsed notebook
check_saved_outputs(notebook) == CellErrors(Get(notebook, "cells", <<>>), 1)

\* open() and json.load() fail on a missing file and on one that is not JSON
LoadRaises(file) == file.state # "json"

----------------------------------------------------------------------------
(* The world main() runs in *)

sScript == <<"c","h","e","c","k","_","n","o","t","e","b","o","o","k","s",".","p","y">>
sCheck == <<"-","-","c","h","e","c","k">>
sFlagX == <<"-","-","x">>
sDashV == <<"-","v">>
sA == <<"a",".","i","p","y","n","b">>
sB == <<"b",".","i","p","y","n","b">>
sAX == <<"a","/","x",".","i","p","y","n","b">>
sCkptA == <<".","i","p","y","n","b","_","c","h","e","c","k","p","o","i","n","t","s","/","a",".","i","p","y","n","b">>
sNotes == <<"n","o","t","e","s",".","t","x","t">>
sFlagMarker == <<"-","-">>
sIpynb == <<".","i","p","y","n","b">>
sCheckpoints == <<".","i","p","y","n","b","_","c","h","e","c","k","p","o","i","n","t","s">>

ArgPool == {sCheck, sFlagX, sDashV, sA, sB, sAX}

\* the sequences over S of length at most n
SeqsUpTo(S, n) == UNION {[1..k -> S] : k \in 0..n}

MdCell == [cell_type |-> "markdown"]
StreamCell == [cell_type |-> "code", outputs |-> <<[output_type |-> "stream"]>>]
ResultCell ==
    [cell_type |-> "code", outputs |-> <<[output_type |-> "execute_result"]>>]
ErrorCell ==
    [cell_type |-> "code",
     outputs |-> <<[output_type |-> "error",
                    ename |-> <<"V","a","l","u","e","E","r","r","o","r">>,
                    evalue |-> <<"b","a","d"," ","i","n","p","u","t">>]>>]

CleanDoc == [cells |-> <<MdCell, StreamCell>>]
ErrDoc == [cells |-> <<MdCell, ErrorCell, StreamCell>>]
ExecutedDoc == [cells |-> <<MdCell, ResultCell>>]

AbsentFile == [state |-> "absent", json |-> [cells |-> <<>>]]
GarbageFile == [state |-> "garbage", json |-> [cells |-> <<>>]]
JsonFile(doc) == [state |-> "json", json |-> doc]

FsNotebooks == {sA, sB, sAX}
FsPaths == FsNotebooks \cup {sCkptA, sNotes}

FileAt(fs, path) ==
    IF PathStr(path) \in DOMAIN fs THEN fs[PathStr(path)] ELSE AbsentFile

sNoModule == <<"p","y","t","h","o","n",":"," ","N","o"," ","m","o","d","u","l","e"," ","n","a","m","e","d"," ","j","u","p","y","t","e","r","\n">>
sCellFailed == <<"T","r","a","c","e","b","a","c","k","\n","C","e","l","l","E","x","e","c","u","t","i","o","n","E","r","r","o","r",":"," ","c","e","l","l","\n","V","a","l","u","e","E","r","r","o","r",":"," ","b","a","d"," ","i","n","p","u","t","\n">>
sNoSuchFile == <<"N","o"," ","s","u","c","h"," ","f","i","l","e",":"," ","n","b","\n">>

\* what subprocess.run([sys.executable, '-m', 'jupyter', 'nbconvert', ...])
\* does: FileNotFoundError when the interpreter sys.executable cannot be
\* started; exit status 1 with "No module named jupyter" when the
\* interpreter runs and the module is missing; otherwise the tool runs, and
\* fails on a file it cannot read or on a cell that raises.
SubprocessRun(t, file) ==
    IF t = "no_interpreter"
    THEN {[exc |-> "FileNotFoundError", returncode |-> 0, stderr |-> <<>>]}
    ELSE IF t = "no_jupyter"
    THEN {[exc |-> "none", returncode |-> 1, stderr |-> sNoModule]}
    ELSE IF file.state # "json"
    THEN {[exc |-> "none", returncode |-> 1, stderr |-> sNoSuchFile]}
    ELSE {[exc |-> "none", returncode |-> 0, stderr |-> <<>>],
          [exc |-> "none", returncode |-> 1, stderr |-> sCellFailed]}

----------------------------------------------------------------------------
(* main *)

Range(s) == {s[i] : i \in DOMAIN s}

\* '--check' in sys.argv
IsCheckOnlyFirstArg(av) == Len(av) >= 2 /\ av[2] = sCheck
IsCheckOnly(av) == sCheck \in Range(av)

\* [a for a in sys.argv[1:] if not a.startswith('--')]
IsFlag(a) == StartsWith(a, sFlagMarker)
NotFlag(a) == ~IsFlag(a)
Positional(av) == SelectSeq(Tail(av), NotFlag)

\* [Path(arg) for arg in args]
ExplicitNotebooks(as) == [i \in DOMAIN as |-> Path(as[i])]

\* repo_root.glob('**/*.ipynb'), as a set: the order is the file system's
Glob(fs, root) ==
    {root \o Path(s) : s \in {f \in DOMAIN fs :
        fs[f].state # "absent" /\ EndsWith(PathName(Path(f)), sIpynb)}}

\* [nb for nb in notebooks if '.ipynb_checkpoints' not in str(nb)]
NotCheckpoint(nb) == ~Contains(PathStr(nb), sCheckpoints)

\* the lists that hold each element of S once
Orderings(S) ==
    {s \in [1..Cardinality(S) -> S] : \A i, j \in DOMAIN s : s[i] = s[j] => i = j}

\* sorted(notebooks)
RECURSIVE InsertSorted(_, _)
InsertSorted(x, s) ==
    IF s = <<>> THEN <<x>>
    ELSE IF PathLess(x, s[1]) THEN <<x>> \o s
    ELSE <<s[1]>> \o InsertSorted(x, Tail(s))

RECURSIVE SortedPaths(_)
SortedPaths(s) ==
    IF s = <<>> THEN <<>>
    ELSE InsertSorted(s[Len(s)], SortedPaths(SubSeq(s, 1, Len(s) - 1)))

Unsorted(nbs) == nbs
Sorted(nbs) == SortedPaths(nbs)

\* if not notebooks: ... return 0
NeverEmpty(nbs) == FALSE
IsEmpty(nbs) == nbs = <<>>
NoNotebooksExit == 0

\* if check_only: inspect, else: execute
UsesInspectorNever(check) == FALSE
UsesInspector(check) == check

\* all_passed after a notebook that passed or failed
FoldPassedLast(passed, success) == success
FoldPassed(passed, success) == IF success THEN passed ELSE FALSE

\* a print call
PrintCall(kind, nb, fmt, fargs, end) ==
    [kind |-> kind, nb |-> nb, fmt |-> fmt, args |-> fargs, end |-> end]

\* for err in errors: print(f"   Cell {err['cell']}: {err['ename']}: {err['evalue']}")
ErrorLinesNone(nb, errors) == <<>>
ErrorLines(nb, errors) ==
    [k \in DOMAIN errors |->
        PrintCall("diag", nb, "   Cell {cell}: {ename}: {evalue}",
              <<IntToStr(errors[k].cell), errors[k].ename, errors[k].evalue>>,
              "\n")]

\* the index, in sorted(notebooks), of the notebook the loop is at
Pos == Len(notebooks) - Len(todo) + 1

Call(fn, path, outcome, message) ==
    [fn |-> fn, pos |-> Pos, path |-> path, outcome |-> outcome,
     message |-> message]

Init ==
    /\ argv \in {<<sScript>> \o t : t \in SeqsUpTo(ArgPool, MaxArgs)}
    /\ tool \in {"no_interpreter", "no_jupyter", "ok"}
    /\ files \in {f \in [FsPaths -> {AbsentFile, GarbageFile,
                                    JsonFile(CleanDoc), JsonFile(ErrDoc)}] :
                    /\ f[sNotes] = GarbageFile
                    /\ f[sB] \in {AbsentFile, JsonFile(CleanDoc)}
                    /\ f[sCkptA] \in {AbsentFile, JsonFile(ErrDoc)}}
    /\ files0 = files
    /\ pc = "start"
    /\ check_only = FALSE
    /\ args = <<>>
    /\ notebooks = <<>>
    /\ todo = <<>>
    /\ all_passed = TRUE
    /\ out = <<>>
    /\ rc = -1
    /\ calls = <<>>
    /\ fin = <<>>
    /\ fres = <<>>
    /\ fpc = "idle"

\* lines 76-77
ParseArgs ==
    /\ pc = "start"
    /\ check_only' = IsCheckOnly(argv)
    /\ args' = Positional(argv)
    /\ pc' = "resolve"
    /\ UNCHANGED <<argv, tool, files, files0, notebooks, todo, all_passed,
                   out, rc, calls, funVars>>

\* lines 79-80
ResolveExplicit ==
    /\ pc = "resolve"
    /\ args # <<>>
    /\ notebooks' = ExplicitNotebooks(args)
    /\ pc' = "resolved"
    /\ UNCHANGED <<argv, tool, files, files0, check_only, args, todo,
                   all_passed, out, rc, calls, funVars>>

\* lines 81-84
Discover ==
    /\ pc = "resolve"
    /\ args = <<>>
    /\ \E found \in Orderings(Glob(files, PathParent(Path(argv[1])))) :
          notebooks' = SelectSeq(found, NotCheckpoint)
    /\ pc' = "resolved"
    /\ UNCHANGED <<argv, tool, files, files0, check_only, args, todo,
                   all_passed, out, rc, calls, funVars>>

\* lines 86-88
NoNotebooks ==
    /\ pc = "resolved"
    /\ IsEmpty(notebooks)
    /\ out' = Append(out, PrintCall("none", 0, "No notebooks found.", <<>>, "\n"))
    /\ rc' = NoNotebooksExit
    /\ pc' = "done"
    /\ UNCHANGED <<argv, tool, files, files0, check_only, args, notebooks,
                   todo, all_passed, calls, funVars>>

\* lines 90-95: the header, all_passed = True, and sorted(notebooks)
Header ==
    /\ pc = "resolved"
    /\ ~IsEmpty(notebooks)
    /\ out' = Append(out,
                PrintCall("header", 0, "{mode} {len(notebooks)} notebook(s)...\n",
                      <<IF check_only THEN "Checking saved outputs" ELSE "Running",
                        IntToStr(Len(notebooks))>>, "\n"))
    /\ all_passed' = TRUE
    /\ todo' = Sorted(notebooks)
    /\ pc' = "loop"
    /\ UNCHANGED <<argv, tool, files, files0, check_only, args, notebooks,
                   rc, calls, funVars>>

\* lines 96-104: one iteration of the loop in --check mode
InspectNotebook ==
    /\ pc = "loop"
    /\ todo # <<>>
    /\ UsesInspector(check_only)
    /\ LET nb_path == todo[1]
           file == FileAt(files, nb_path)
       IN  IF LoadRaises(file)
           THEN /\ calls' = Append(calls,
                       Call("check_saved_outputs", nb_path, "raise", <<>>))
                /\ pc' = "raised"
                /\ UNCHANGED <<todo, all_passed, out>>
           ELSE LET errors == check_saved_outputs(file.json)
                IN  /\ calls' = Append(calls,
                          Call("check_saved_outputs", nb_path,
                               IF errors # <<>> THEN "fail" ELSE "pass", <<>>))
                    /\ all_passed' = FoldPassed(all_passed, errors = <<>>)
                    /\ out' = IF errors # <<>>
                              THEN out \o <<PrintCall("status", Pos,
                                               "X {name}: {len(errors)} error(s)",
                                               <<PathName(nb_path),
                                                 IntToStr(Len(errors))>>, "\n")>>
                                       \o ErrorLines(Pos, errors)
                              ELSE Append(out, PrintCall("status", Pos, "V {name}: OK",
                                                     <<PathName(nb_path)>>, "\n"))
                    /\ todo' = Tail(todo)
                    /\ pc' = "loop"
    /\ UNCHANGED <<argv, tool, files, files0, check_only, args, notebooks,
                   rc, funVars>>

\* lines 105-113: one iteration of the loop in execution mode
ExecuteNotebook ==
    /\ pc = "loop"
    /\ todo # <<>>
    /\ ~UsesInspector(check_only)
    /\ LET nb_path == todo[1]
           running == PrintCall("progress", Pos, "  Running {name}...",
                            <<PathName(nb_path)>>, " ")
       IN  \E proc \in SubprocessRun(tool, FileAt(files, nb_path)) :
             LET r == run_notebook(proc)
             IN  /\ files' = IF proc.exc = "none" /\ proc.returncode = 0
                             THEN [files EXCEPT ![PathStr(nb_path)] =
                                                    JsonFile(ExecutedDoc)]
                             ELSE files
                 /\ IF r.raised
                    THEN /\ calls' = Append(calls,
                               Call("run_notebook", nb_path, "raise", <<>>))
                         /\ out' = Append(out, running)
                         /\ pc' = "raised"
                         /\ UNCHANGED <<todo, all_passed>>
                    ELSE /\ calls' = Append(calls,
                               Call("run_notebook", nb_path,
                                    IF r.success THEN "pass" ELSE "fail",
                                    r.message))
                         /\ all_passed' = FoldPassed(all_passed, r.success)
                         /\ out' = IF r.success
                                   THEN out \o <<running,
                                          PrintCall("status", Pos, "V", <<>>, "\n")>>
                                   ELSE out \o <<running,
                                          PrintCall("status", Pos, "X", <<>>, "\n"),
                                          PrintCall("diag", Pos, "    Error: {error}",
                                                <<r.message>>, "\n")>>
                         /\ todo' = Tail(todo)
                         /\ pc' = "loop"
    /\ UNCHANGED <<argv, tool, files0, check_only, args, notebooks, rc, funVars>>

\* lines 115-121
Summary ==
    /\ pc = "loop"
    /\ todo = <<>>
    /\ out' = out \o <<PrintCall("blank", 0, "", <<>>, "\n"),
                       IF all_passed
                       THEN PrintCall("summary", 0, "All notebooks passed! V", <<>>, "\n")
                       ELSE PrintCall("summary", 0, "Some notebooks have errors.",
                                  <<>>, "\n")>>
    /\ rc' = IF all_passed THEN 0 ELSE 1
    /\ pc' = "done"
    /\ UNCHANGED <<argv, tool, files, files0, check_only, args, notebooks,
                   todo, all_passed, calls, funVars>>

Next ==
    \/ ParseArgs
    \/ ResolveExplicit
    \/ Discover
    \/ NoNotebooks
    \/ Header
    \/ InspectNotebook
    \/ ExecuteNotebook
    \/ Summary

Spec == Init /\ [][Next]_vars

----------------------------------------------------------------------------
(* run_notebook and check_saved_outputs on their own, over bounded inputs *)

MainIdle ==
    /\ argv = <<sScript>>
    /\ tool = "ok"
    /\ files = [f \in FsPaths |-> AbsentFile]
    /\ files0 = files
    /\ pc = "idle"
    /\ check_only = FALSE
    /\ args = <<>>
    /\ notebooks = <<>>
    /\ todo = <<>>
    /\ all_passed = TRUE
    /\ out = <<>>
    /\ rc = -1
    /\ calls = <<>>

X99 == Rep("x", 99)
X100 == Rep("x", 100)
sExceptionLine == <<"E","x","c","e","p","t","i","o","n",":"," ","b","o","o","m">>

LinePool == {<<>>, X99, X100, sCellExecutionError, sExceptionLine}

StderrPool ==
    {Join(ls, <<"\n">>) \o trail :
        ls \in SeqsUpTo(LinePool, MaxLines), trail \in {<<>>, <<"\n">>}}

ProcPool ==
    {[exc |-> "FileNotFoundError", returncode |-> 0, stderr |-> <<>>]}
    \cup {[exc |-> "none", returncode |-> c, stderr |-> e] :
             c \in {0, 1, 2}, e \in StderrPool}

InitRun ==
    /\ MainIdle
    /\ fin \in ProcPool
    /\ fres = <<>>
    /\ fpc = "ready"

ApplyRun ==
    /\ fpc = "ready"
    /\ fres' = run_notebook(fin)
    /\ fpc' = "applied"
    /\ UNCHANGED <<fin, mainVars>>

NextRun == ApplyRun

SpecRun == InitRun /\ [][NextRun]_vars

V101 == Rep("v", 101)
ErrFull == ErrorCell.outputs[1]
ErrBare == [output_type |-> "error", evalue |-> V101]
StreamOut == [output_type |-> "stream"]

OutputPool == {ErrFull, ErrBare, StreamOut}

CellPool ==
    {[cell_type |-> "code", outputs |-> os] : os \in SeqsUpTo(OutputPool, MaxOutputs)}
    \cup {[cell_type |-> "code"], [cell_type |-> "markdown"],
          [cell_type |-> "markdown", outputs |-> <<ErrFull>>],
          [outputs |-> <<ErrFull>>]}

DocPool ==
    {[cells |-> cs] : cs \in SeqsUpTo(CellPool, MaxCells)}
    \cup {[nbformat |-> 4]}

InitInspect ==
    /\ MainIdle
    /\ fin \in DocPool
    /\ fres = <<>>
    /\ fpc = "ready"

ApplyInspect ==
    /\ fpc = "ready"
    /\ fres' = check_saved_outputs(fin)
    /\ fpc' = "applied"
    /\ UNCHANGED <<fin, mainVars>>

NextInspect == ApplyInspect

SpecInspect == InitInspect /\ [][NextInspect]_vars

----------------------------------------------------------------------------
(* Properties *)

Executor == "run_notebook"
Inspector == "check_saved_outputs"

\* the arguments after the script path
ArgIndexes == 2..Len(argv)
CheckRequested == \E i \in ArgIndexes : argv[i] = sCheck
OnlyFlags == \A i \in ArgIndexes : StartsWith(argv[i], sFlagMarker)

Returned == pc = "done"
Aborted == pc = "raised"
SomeFailed == \E k \in DOMAIN calls : calls[k].outcome = "fail"

\* the print calls of one kind for the notebook at position nb
Lines(kind, nb) == {k \in DOMAIN out : out[k].kind = kind /\ out[k].nb = nb}

\* C1: when main() returns, the exit code is 1 if and only if some processed
\* notebook failed, and 0 otherwise; a pass after a failure does not restore 0.
C1_ExitCode ==
    Returned => /\ rc \in {0, 1}
                /\ rc = 1 <=> SomeFailed

C1_Witness ==
    /\ Returned
    /\ rc = 1
    /\ Len(calls) >= 2
    /\ calls[1].outcome = "fail"
    /\ calls[Len(calls)].outcome = "pass"

\* what C2 says of a run that has ended
ReportComplete ==
    /\ \A i \in 1..Len(notebooks) :
          /\ Cardinality(Lines("status", i)) = 1
          /\ (i \in DOMAIN calls /\ calls[i].outcome = "fail")
                => Cardinality(Lines("diag", i)) >= 1
    /\ Len(calls) = Len(notebooks)
    /\ \A k \in DOMAIN calls : calls[k].outcome \in {"pass", "fail"}
    /\ Cardinality(Lines("summary", 0)) = 1
    /\ out[Len(out)].kind = "summary"
    /\ rc = IF SomeFailed THEN 1 ELSE 0

\* C2 as stated: every run with targets, whatever each notebook's outcome
\* (an unparseable file included), ends with one status line per notebook,
\* diagnostics for the failures, one summary line and an exit code.
C2_Original ==
    (notebooks # <<>> /\ (Returned \/ Aborted)) => ReportComplete

\* C2 amended: every run with targets that main() returns from has one status
\* line per notebook, one or more diagnostic lines per failing notebook, one
\* summary line, last, and the exit code of the aggregate; a run aborted by an
\* unreadable notebook in --check mode has none of the later ones.
C2_ReportOnReturn ==
    (notebooks # <<>> /\ Returned) => ReportComplete

C2_Witness ==
    /\ Returned
    /\ Len(notebooks) >= 2
    /\ \E i \in DOMAIN calls : calls[i].outcome = "fail"
    /\ \E i \in DOMAIN calls : calls[i].outcome = "pass"
    /\ check_only

\* C3: in execution mode, when jupyter is not installed, run_notebook fails
\* with the fixed message 'jupyter not found. ...', the run goes on and
\* every notebook is attempted.
C3_MissingToolMessage ==
    /\ \A k \in DOMAIN calls :
          (calls[k].fn = Executor /\ tool \in {"no_jupyter", "no_interpreter"})
             => /\ calls[k].outcome = "fail"
                /\ calls[k].message = JupyterNotFound
    /\ (~CheckRequested /\ tool # "ok" /\ Returned) => Len(calls) = Len(notebooks)

\* the (cell, output) positions of the error outputs of code cells
ErrorPositions(cells) ==
    UNION {{<<i, j>> : j \in {h \in 1..Len(Get(cells[i], "outputs", <<>>)) :
                        Get(cells[i].outputs[h], "output_type", "") = "error"}} :
           i \in {g \in 1..Len(cells) : Get(cells[g], "cell_type", "") = "code"}}

PositionBefore(p, q) == p[1] < q[1] \/ (p[1] = q[1] /\ p[2] < q[2])

\* C4: check_saved_outputs returns one descriptor per error output of a code
\* cell, in document order, and no other; its cell is the position of the
\* cell among all cells, counted from 1; missing 'cells' or 'outputs' is
\* an empty list.
C4_Descriptors ==
    fpc = "applied" =>
        LET cells == IF "cells" \in DOMAIN fin THEN fin.cells ELSE <<>>
            E == ErrorPositions(cells)
        IN  /\ Len(fres) = Cardinality(E)
            /\ \A p \in E :
                  LET k == Cardinality({q \in E : PositionBefore(q, p)}) + 1
                      output == cells[p[1]].outputs[p[2]]
                  IN  /\ fres[k].cell = p[1]
                      /\ fres[k].ename =
                            IF "ename" \in DOMAIN output THEN output.ename
                            ELSE sUnknown
                      /\ "evalue" \in DOMAIN output =>
                            /\ Len(fres[k].evalue) = Min(Len(output.evalue), 100)
                            /\ \A c \in 1..Len(fres[k].evalue) :
                                  fres[k].evalue[c] = output.evalue[c]

C4_Witness ==
    /\ fpc = "applied"
    /\ "cells" \in DOMAIN fin
    /\ fin.cells = <<[cell_type |-> "markdown"],
                     [cell_type |-> "code", outputs |-> <<ErrBare, ErrFull>>]>>
    /\ fres = <<[cell |-> 2, ename |-> sUnknown, evalue |-> Rep("v", 100)],
                [cell |-> 2, ename |-> ErrFull.ename, evalue |-> ErrFull.evalue]>>

\* the status lines are printed in the order of the calls, one notebook at a
\* time
OneAtATime ==
    /\ \A k \in DOMAIN calls : calls[k].pos = k
    /\ \A a, b \in DOMAIN out :
          (a < b /\ out[a].nb > 0 /\ out[b].nb > 0) => out[a].nb <= out[b].nb
    /\ \A k \in DOMAIN out : out[k].nb > 0 => out[k].nb \in DOMAIN calls

\* C5 as stated: the notebooks are processed in ascending lexicographic
\* order of their paths (as strings).
C5_Original ==
    /\ OneAtATime
    /\ \A i, j \in DOMAIN calls :
          i < j => ~StrLess(PathStr(calls[j].path), PathStr(calls[i].path))

\* C5 amended: the notebooks are processed, one at a time, in ascending
\* order of Path comparison: lexicographic over the list of path components,
\* each component compared as a string, whatever order they were supplied in.
C5_PathOrder ==
    /\ OneAtATime
    /\ \A i, j \in DOMAIN calls :
          i < j => ~PathLess(calls[j].path, calls[i].path)

C5_Witness ==
    /\ Returned
    /\ Len(calls) = 2
    /\ notebooks = <<Path(sB), Path(sA)>>
    /\ calls[1].path = Path(sA)
    /\ calls[2].path = Path(sB)

\* C6: the message of run_notebook has at most 200 characters; it is the
\* first 200 characters of the derived diagnostic when that is longer, the
\* diagnostic itself otherwise; on exit status 0 it is empty and success is
\* True.
C6_Message ==
    fpc = "applied" =>
        /\ Len(fres.message) <= 200
        /\ (fin.exc = "none" /\ fin.returncode # 0) =>
              LET d == Diagnostic(fin.stderr)
              IN  /\ ~fres.success
                  /\ Len(d) > 200 =>
                        /\ Len(fres.message) = 200
                        /\ \A i \in 1..200 : fres.message[i] = d[i]
                  /\ Len(d) <= 200 => fres.message = d
        /\ (fin.exc = "none" /\ fin.returncode = 0) =>
              fres.success /\ fres.message = <<>>

C6_Witness ==
    /\ fpc = "applied"
    /\ fin.exc = "none"
    /\ fin.returncode # 0
    /\ Contains(fin.stderr, sCellExecutionError)
    /\ Len(Diagnostic(fin.stderr)) > 200
    /\ Len(fres.message) = 200

\* C7: when target resolution yields no notebook, the output is the one line
\* 'No notebooks found.', the exit code is 0 and neither run_notebook nor
\* check_saved_outputs is called.
C7_NoNotebooks ==
    (notebooks = <<>> /\ pc \notin {"start", "resolve", "resolved"}) =>
        /\ Returned
        /\ out = <<[kind |-> "none", nb |-> 0, fmt |-> "No notebooks found.",
                    args |-> <<>>, end |-> "\n"]>>
        /\ rc = 0
        /\ calls = <<>>

C7_Witness ==
    /\ Returned
    /\ notebooks = <<>>
    /\ CheckRequested
    /\ files[sCkptA].state = "json"

\* C8: in --check mode run_notebook is never called and no file changes;
\* in execution mode check_saved_outputs is never called.
C8_Frame ==
    /\ CheckRequested =>
          /\ \A k \in DOMAIN calls : calls[k].fn # Executor
          /\ files = files0
    /\ ~CheckRequested => \A k \in DOMAIN calls : calls[k].fn # Inspector

C8_Witness ==
    /\ Returned
    /\ CheckRequested
    /\ Len(calls) >= 2
    /\ files = files0

\* C9: a failing notebook never stops the run, except a notebook that
\* --check mode cannot read or parse: there the run ends with no status
\* line for that notebook, no summary line and no return value.
C9_Propagation ==
    /\ \A k \in DOMAIN calls :
          calls[k].outcome = "raise" <=>
              /\ calls[k].fn = Inspector
              /\ LoadRaises(FileAt(files0, calls[k].path))
    /\ Aborted =>
          /\ calls # <<>>
          /\ calls[Len(calls)].outcome = "raise"
          /\ \A i \in Len(calls)..Len(notebooks) : Lines("status", i) = {}
          /\ Lines("summary", 0) = {}
          /\ rc = -1
    /\ (\E k \in DOMAIN calls : calls[k].outcome = "raise") => Aborted
    /\ pc = "loop" =>
          /\ Len(calls) = Len(notebooks) - Len(todo)
          /\ \A k \in DOMAIN calls : calls[k].outcome \in {"pass", "fail"}
    /\ (Returned /\ notebooks # <<>>) =>
          /\ Len(calls) = Len(notebooks)
          /\ Cardinality(Lines("summary", 0)) = 1

C9_Witness ==
    /\ Aborted
    /\ Len(calls) = 2
    /\ calls[1].outcome = "fail"
    /\ Len(notebooks) = 3

\* C10: the mode is fixed before the first notebook and is inspection
\* exactly when '--check' is among the arguments; the arguments that start
\* with '--' are dropped, and when nothing else is left the targets come
\* from discovery as they do without arguments.
C10_Arguments ==
    /\ \A k \in DOMAIN calls :
          calls[k].fn = IF CheckRequested THEN Inspector ELSE Executor
    /\ pc # "start" => (check_only <=> CheckRequested)
    /\ pc \notin {"start", "resolve"} =>
          IF OnlyFlags
          THEN /\ Range(notebooks) =
                     {nb \in Glob(files0, <<>>) : NotCheckpoint(nb)}
               /\ \A i, j \in DOMAIN notebooks :
                     notebooks[i] = notebooks[j] => i = j
          ELSE /\ Len(notebooks) =
                     Cardinality({i \in ArgIndexes : ~StartsWith(argv[i], sFlagMarker)})
               /\ \A k \in DOMAIN notebooks :
                     \E i \in ArgIndexes :
                        /\ ~StartsWith(argv[i], sFlagMarker)
                        /\ notebooks[k] = Path(argv[i])
                        /\ k = Cardinality({h \in 2..i :
                                  ~StartsWith(argv[h], sFlagMarker)})

C10_Witness ==
    /\ Returned
    /\ Len(argv) = 3
    /\ argv[2] = sFlagX
    /\ argv[3] = sCheck
    /\ Len(calls) >= 2
    /\ calls[1].fn = Inspector

====
